---- MODULE Spec2Model ----
(***************************************************************************)
(* A model of zotero_client.api.client.ZoteroClient: one synchronous       *)
(* caller issuing client method calls against the remote Zotero API and    *)
(* the local filesystem.  Every HTTP request and every file open of the    *)
(* call in progress is appended to `log`, in the order the code performs   *)
(* them; the remote server answers each request with any status and any    *)
(* body of the bounded sets below.                                         *)
(*                                                                         *)
(* Encoding of Python values: ids, keys, urls and messages are strings;    *)
(* file paths, file names and titles are sequences of one-character        *)
(* strings (so that os.path.basename is computed), and so are dates and    *)
(* creator names (so that the fingerprint is); an Optional argument is     *)
(* None (the empty sequence) or Some(v) (a one-element sequence); a dict   *)
(* is a function on its keys.                                              *)
(***************************************************************************)
EXTENDS Integers, Sequences, FiniteSets, TLC

VARIABLES
    self,     \* the ZoteroClient instance: api_key, user_id, library_type, headers
    pc,       \* position of the call in progress ("idle" when none)
    frame,    \* arguments and local variables of the call in progress
    log,      \* the requests and file opens of the call in progress, in order
    result,   \* outcome of the call in progress: pending, return or raise
    created,  \* server: key -> "has file content", for the item records created
    files,    \* local filesystem: existing path -> content
    ncalls,   \* calls begun so far
    threads,  \* concurrent callers: each one's position, call and local headers
    server,   \* server: the live version and the tags of the items it keeps
    cli       \* command-line process: handler calls, lines printed, exit status

vars == <<self, pc, frame, log, result, created, files, ncalls, threads, server, cli>>

----------------------------------------------------------------------------
(* Bounds *)

MaxCalls == 2

----------------------------------------------------------------------------
(* Python values *)

None == <<>>
Some(v) == <<v>>

Get(d, k, default) == IF k \in DOMAIN d THEN d[k] ELSE default

BASE_URL == "https://api.zotero.org"

(* posixpath.basename: everything after the last "/" *)
basename(p) ==
    LET slashes == {i \in 1..Len(p) : p[i] = "/"}
        i == IF slashes = {} THEN 0
             ELSE CHOOSE m \in slashes : \A n \in slashes : n <= m
    IN SubSeq(p, i + 1, Len(p))

(* requests.Response.raise_for_status, as called after every request:      *)
(* raises HTTPError for a 4xx or 5xx status                                *)
raise_for_status(status) == status >= 400 /\ status < 600

----------------------------------------------------------------------------
(* The environment: what the caller passes and what the server answers *)

ApiKey == "key"
UserId == "u1"

(* ids are item keys, hence non-empty *)
ParentIds == {"P1", "P2"}
ItemIds == {"I1", "I2"}
NewKeys == {"K1", "K2"}

Paths == { <<"/", "d", "/", "a">>, <<"b">>, <<"d", "/", "n">> }
Titles == { <<"T">>, <<>> }

(* statuses the API answers with: success (2xx) or an error (4xx, 5xx);     *)
(* redirects are followed inside requests and never reach the client        *)
Statuses == {200, 204, 412, 500}

(* a read is answered with its content (200) or with an error *)
ReadStatuses == Statuses \ {204}

Templates ==
    { [itemType |-> "attachment", parentItem |-> "P9", linkMode |-> "imported_url",
       contentType |-> "application/pdf", filename |-> <<"x">>, title |-> <<"X">>],
      [itemType |-> "attachment", linkMode |-> "imported_url", title |-> <<>>,
       note |-> "n", tags |-> <<>>],
      [itemType |-> "attachment"] }

MaxVersion == 2
Versions == 0..MaxVersion

TagLists == { <<>>, <<"t1">>, <<"t2", "t1", "t3">> }
ItemData == { [title |-> <<"T">>], [title |-> <<>>, date |-> <<"2", "0", "2", "3">>] }
CollectionIds == {"C1", "C2"}
CollectionData == { [name |-> "n1"], [name |-> "n2", parentCollection |-> "C1"] }

(* the bodies of a file download, and the ways iter_content may cut a body  *)
(* into chunks: at any subset of its inner positions                        *)
Bodies == { <<>>, <<1>>, <<2, 1>> }

Chunkings(body) ==
    { LET B == {0, Len(body)} \cup cuts
          b(j) == CHOOSE x \in B : Cardinality({y \in B : y < x}) = j - 1
      IN [j \in 1..(Cardinality(B) - 1) |-> SubSeq(body, b(j) + 1, b(j + 1))]
      : cuts \in SUBSET (1..(Len(body) - 1)) }

ChunkLists == UNION { Chunkings(body) : body \in Bodies }

(* What the server may answer to the create POST of one item `d` under the  *)
(* fresh key `k`: the envelope {key, version, data, links}, whose links     *)
(* may or may not hold file.href and whose data may or may not echo title   *)
FileUrl(k) == BASE_URL \o "/users/" \o UserId \o "/items/" \o k \o "/file"

CreateResponses(d, k) ==
    LET echoed == ("key" :> k) @@ d
        untitled == [f \in DOMAIN echoed \ {"title"} |-> echoed[f]]
    IN { [key |-> k, version |-> 1, data |-> echoed,
          links |-> [file |-> [href |-> FileUrl(k)]]],
         [key |-> k, version |-> 1, data |-> untitled,
          links |-> [file |-> [href |-> FileUrl(k)]]],
         [key |-> k, version |-> 1, data |-> echoed,
          links |-> [file |-> [type |-> "application/pdf"]]],
         [key |-> k, version |-> 1, data |-> echoed,
          links |-> [alternate |-> [href |-> "https://www.zotero.org"]]],
         [key |-> k, version |-> 1, data |-> echoed] }

(* What the server may answer to GET items/{id}: any item type, the links  *)
(* with or without a file entry, the file entry with or without href        *)
ItemResponses(id) ==
    LET data(t) == [key |-> id, itemType |-> t, title |-> <<"X">>, creators |-> <<>>,
                    date |-> <<"2", "0", "2", "4">>, url |-> ""]
    IN UNION { { [key |-> id, version |-> 1, data |-> data(t),
                  links |-> [file |-> [href |-> FileUrl(id)]]],
                 [key |-> id, version |-> 1, data |-> data(t), links |-> <<>>],
                 [key |-> id, version |-> 1, data |-> data(t),
                  links |-> [file |-> [type |-> "application/pdf"]]],
                 [key |-> id, version |-> 1, data |-> data(t)] }
               : t \in {"attachment", "book"} }

(* What the server may answer to a successful update PUT of `id`: a list of *)
(* one envelope with the new version                                        *)
UpdatedItemResponses(id, d) ==
    { << [key |-> id, version |-> v, data |-> ("key" :> id) @@ d] >> : v \in 1..2 }

UpdatedCollectionResponses(id, d) ==
    { << [key |-> id, version |-> v, data |-> ("key" :> id) @@ d] >> : v \in 1..2 }
      \cup { << [key |-> id, data |-> [key |-> id]] >> }

(* The library the server lists on GET items: up to MaxItems of these      *)
(* items, each at most once, in any order                                   *)
MaxItems == 4

LibraryItem(key, itemType, title, creators, date) ==
    [key |-> key, version |-> 1,
     data |-> [key |-> key, itemType |-> itemType, title |-> title,
               creators |-> creators] @@ date,
     links |-> <<>>]

Author(lastName) ==
    [creatorType |-> "author", firstName |-> <<"A">>, lastName |-> lastName]

LibraryItems ==
    { LibraryItem("D1", "journalArticle", <<"A", "b", "!">>, <<Author(<<"B">>)>>,
                  [date |-> <<"1", "-", "1">>]),
      LibraryItem("D2", "book", <<"a", " ", "b">>,
                  <<[creatorType |-> "editor", name |-> <<"a">>], Author(<<"b">>)>>,
                  [date |-> <<"1">>]),
      LibraryItem("D3", "note", <<"a", "b">>, <<Author(<<"b">>)>>, <<>>),
      LibraryItem("D4", "book", <<"a", "b">>, <<Author(<<"B">>), Author(<<"a">>)>>,
                  [date |-> <<"2">>]),
      LibraryItem("D5", "book", <<"!", " ">>, <<Author(<<"b">>)>>, [date |-> <<"1">>]),
      LibraryItem("D6", "book", <<"a", "b">>, <<Author(<<>>)>>, [date |-> <<"1">>]),
      LibraryItem("D7", "book", <<"a", "b">>, <<Author(<<"b">>)>>,
                  [date |-> <<"-", "1">>]),
      LibraryItem("D8", "journalArticle", <<"A", "-", "B">>,
                  <<Author(<<"a", "_", "B">>)>>, [date |-> <<"2", "-", "1">>]) }

RECURSIVE Listings(_)
Listings(n) ==
    IF n = 0 THEN { <<>> }
    ELSE LET shorter == Listings(n - 1)
         IN shorter \cup
            { Append(l, d) : l \in {x \in shorter : Len(x) = n - 1},
                             d \in LibraryItems }

ItemListings ==
    { l \in Listings(MaxItems) : \A i, j \in 1..Len(l) : i # j => l[i] # l[j] }

----------------------------------------------------------------------------
(* No versioned item is kept by the server; no command line is being run *)

NoServer == <<>>

NoCommand ==
    [pc |-> "start", argv |-> <<>>, args |-> <<>>, handled |-> <<>>,
     stdout |-> <<>>, exit |-> None, raised |-> None]

----------------------------------------------------------------------------
(* Events of a call and its outcome *)

Http(method, url, kw, status, body) ==
    [ev |-> "http", method |-> method, url |-> url, kw |-> kw,
     status |-> status, body |-> body]

Open(path, mode, ok) == [ev |-> "open", path |-> path, mode |-> mode, ok |-> ok]

Pending == [kind |-> "pending"]
Return(v) == [kind |-> "return", value |-> v]
Raise(exc, arg) == [kind |-> "raise", exc |-> exc, arg |-> arg]

HttpEvents(l) == SelectSeq(l, LAMBDA e : e.ev = "http")
OpenEvents(l) == SelectSeq(l, LAMBDA e : e.ev = "open")

----------------------------------------------------------------------------
(* Item.from_api_response (models/item.py) *)

from_api_response(data) ==
    LET item_data == Get(data, "data", <<>>)
    IN [key |-> Get(item_data, "key", ""),
        title |-> Get(item_data, "title", <<>>),
        item_type |-> Get(item_data, "itemType", ""),
        creators |-> Get(item_data, "creators", <<>>),
        date |-> Get(item_data, "date", <<>>),
        url |-> Get(item_data, "url", ""),
        version |-> Get(data, "version", 0),
        parent_item |-> Get(item_data, "parentItem", None),
        links |-> Get(data, "links", <<>>),
        abstract_note |-> Get(item_data, "abstractNote", None)]

(* Collection.from_api_response (models/collection.py) *)
collection_from_api_response(data) ==
    LET collection_data == Get(data, "data", <<>>)
    IN [key |-> Get(collection_data, "key", ""),
        name |-> Get(collection_data, "name", ""),
        version |-> Get(data, "version", 0),
        parent_collection |-> Get(collection_data, "parentCollection", None)]

----------------------------------------------------------------------------
(* ZoteroClient.__init__ *)

NewClient(api_key, user_id) ==
    [api_key |-> api_key, user_id |-> user_id, openai_api_key |-> None,
     library_type |-> "users", headers |-> ("Zotero-API-Key" :> api_key)]

LibraryUrl(c) == BASE_URL \o "/" \o c.library_type \o "/" \o c.user_id

----------------------------------------------------------------------------
(* ZoteroClient.get_attachment_template: the request it issues *)

(* variant: the template is requested for the link mode of the created item *)
get_attachment_template_params_imported_file(item_id) ==
    IF item_id # ""
    THEN [itemType |-> "attachment", linkMode |-> "imported_file", parentItem |-> item_id]
    ELSE [itemType |-> "attachment"]

get_attachment_template_params(item_id) ==
    IF item_id # ""
    THEN [itemType |-> "attachment", linkMode |-> "imported_url", parentItem |-> item_id]
    ELSE [itemType |-> "attachment"]

(* variant: the link mode of the template is kept *)
upload_metadata_keeps_link_mode(template, parent_item_id, file_path, title) ==
    LET filename == basename(file_path)
        t == IF title = None THEN filename ELSE title[1]
    IN [title |-> t, parentItem |-> parent_item_id, filename |-> filename,
        contentType |-> "application/octet-stream"]
       @@ template @@ [linkMode |-> "imported_file"]

(* ZoteroClient.upload_attachment, "Prepare attachment metadata": the       *)
(* template with title, parentItem, filename, contentType, linkMode set     *)
upload_metadata(template, parent_item_id, file_path, title) ==
    LET filename == basename(file_path)
        t == IF title = None THEN filename ELSE title[1]
    IN [title |-> t, parentItem |-> parent_item_id, filename |-> filename,
        contentType |-> "application/octet-stream", linkMode |-> "imported_file"]
       @@ template

(* variant: the lookup falls back to '' (dict.get) instead of raising *)
file_upload_url_or_empty(data) ==
    IF /\ "links" \in DOMAIN data
       /\ "file" \in DOMAIN data.links
       /\ "href" \in DOMAIN data.links.file
    THEN Some(data.links.file.href)
    ELSE Some("")

(* created_attachment_data['links']['file']['href']: Some(href), or None    *)
(* when a key of the chain is absent (the lookup raises KeyError)           *)
file_upload_url(data) ==
    IF /\ "links" \in DOMAIN data
       /\ "file" \in DOMAIN data.links
       /\ "href" \in DOMAIN data.links.file
    THEN Some(data.links.file.href)
    ELSE None

upload_headers(c) == ("Content-Type" :> "application/octet-stream") @@ c.headers

----------------------------------------------------------------------------
(* ZoteroClient.upload_attachment *)

(* variant: the path is opened before the first request *)
upload_attachment_call_opening_file ==
    /\ pc = "idle"
    /\ ncalls < MaxCalls
    /\ \E parent_item_id \in ParentIds, file_path \in Paths,
          title \in {None} \cup {Some(t) : t \in Titles} :
         /\ frame' = [op |-> "upload_attachment", parent_item_id |-> parent_item_id,
                      file_path |-> file_path, title |-> title]
         /\ log' = <<Open(file_path, "rb", file_path \in DOMAIN files)>>
    /\ pc' = "up_template"
    /\ result' = Pending
    /\ ncalls' = ncalls + 1
    /\ UNCHANGED <<self, threads, server, cli, created, files>>

upload_attachment_call ==
    /\ pc = "idle"
    /\ ncalls < MaxCalls
    /\ \E parent_item_id \in ParentIds, file_path \in Paths,
          title \in {None} \cup {Some(t) : t \in Titles} :
         frame' = [op |-> "upload_attachment", parent_item_id |-> parent_item_id,
                   file_path |-> file_path, title |-> title]
    /\ pc' = "up_template"
    /\ log' = <<>>
    /\ result' = Pending
    /\ ncalls' = ncalls + 1
    /\ UNCHANGED <<self, threads, server, cli, created, files>>

(* variant: the status of the template response is not checked *)
upload_attachment_template_unchecked ==
    /\ pc = "up_template"
    /\ \E status \in Statuses, template \in Templates :
         LET url == LibraryUrl(self) \o "/items/new"
             kw == [headers |-> self.headers,
                    params |-> get_attachment_template_params(frame.parent_item_id)]
             body == IF raise_for_status(status) THEN None ELSE template
         IN /\ log' = Append(log, Http("GET", url, kw, status, body))
            /\ frame' = [template |-> upload_metadata(body, frame.parent_item_id,
                                                      frame.file_path, frame.title)]
                        @@ frame
            /\ pc' = "up_create"
            /\ result' = result
    /\ UNCHANGED <<self, threads, server, cli, created, files, ncalls>>

(* 1. Get an attachment item template; prepare the metadata *)
upload_attachment_template ==
    /\ pc = "up_template"
    /\ \E status \in Statuses, template \in Templates :
         LET url == LibraryUrl(self) \o "/items/new"
             kw == [headers |-> self.headers,
                    params |-> get_attachment_template_params(frame.parent_item_id)]
         IN IF raise_for_status(status)
            THEN /\ log' = Append(log, Http("GET", url, kw, status, None))
                 /\ result' = Raise("HTTPError", status)
                 /\ pc' = "done"
                 /\ frame' = frame
            ELSE /\ log' = Append(log, Http("GET", url, kw, status, template))
                 /\ frame' = [template |-> upload_metadata(template, frame.parent_item_id,
                                                           frame.file_path, frame.title)]
                             @@ frame
                 /\ pc' = "up_create"
                 /\ result' = result
    /\ UNCHANGED <<self, threads, server, cli, created, files, ncalls>>

(* 2. Create the attachment item; 3. take the upload href and read the file *)
upload_attachment_create ==
    /\ pc = "up_create"
    /\ LET url == LibraryUrl(self) \o "/items"
           kw == [headers |-> self.headers, json |-> <<frame.template>>]
           fresh == NewKeys \ DOMAIN created
       IN \/ \E status \in {s \in Statuses : raise_for_status(s)} :
               /\ log' = Append(log, Http("POST", url, kw, status, None))
               /\ result' = Raise("HTTPError", status)
               /\ pc' = "done"
               /\ UNCHANGED <<frame, created>>
          \/ \E status \in {s \in Statuses : ~raise_for_status(s)}, k \in fresh :
             \E data \in CreateResponses(frame.template, k) :
               LET posted == Append(log, Http("POST", url, kw, status, <<data>>))
                   exists == frame.file_path \in DOMAIN files
               IN /\ created' = (k :> FALSE) @@ created
                  /\ IF file_upload_url(data) = None
                     THEN /\ log' = posted
                          /\ result' = Raise("KeyError", "links.file.href")
                          /\ pc' = "done"
                          /\ frame' = frame
                     ELSE /\ log' = Append(posted, Open(frame.file_path, "rb", exists))
                          /\ IF ~exists
                             THEN /\ result' = Raise("FileNotFoundError", frame.file_path)
                                  /\ pc' = "done"
                                  /\ frame' = frame
                             ELSE /\ frame' = [created_attachment_item |-> from_api_response(data),
                                               file_upload_url |-> file_upload_url(data)[1],
                                               file_content |-> files[frame.file_path]]
                                              @@ frame
                                  /\ pc' = "up_put"
                                  /\ result' = result
    /\ UNCHANGED <<self, threads, server, cli, files, ncalls>>

(* variant: a failed file PUT is compensated by deleting the created item *)
upload_attachment_put_rollback ==
    /\ pc = "up_put"
    /\ \E status \in Statuses :
         LET kw == [headers |-> upload_headers(self), data |-> frame.file_content]
             put == Http("PUT", frame.file_upload_url, kw, status, None)
             item_url == LibraryUrl(self) \o "/items/" \o frame.created_attachment_item.key
         IN IF raise_for_status(status)
            THEN /\ log' = log \o <<put, Http("DELETE", item_url,
                                              [headers |-> self.headers], 204, None)>>
                 /\ result' = Raise("HTTPError", status)
                 /\ created' = [k \in {j \in DOMAIN created :
                                         FileUrl(j) # frame.file_upload_url} |-> created[k]]
            ELSE /\ log' = Append(log, put)
                 /\ result' = Return(frame.created_attachment_item)
                 /\ created' = [k \in DOMAIN created |->
                                  created[k] \/ FileUrl(k) = frame.file_upload_url]
    /\ pc' = "done"
    /\ UNCHANGED <<self, threads, server, cli, frame, files, ncalls>>

(* variant: the item is fetched again after the file PUT and that is returned *)
upload_attachment_put_refetch ==
    /\ pc = "up_put"
    /\ \E status \in Statuses :
       \E data \in ItemResponses(frame.created_attachment_item.key) :
         LET kw == [headers |-> upload_headers(self), data |-> frame.file_content]
             put == Http("PUT", frame.file_upload_url, kw, status, None)
             item_url == LibraryUrl(self) \o "/items/" \o frame.created_attachment_item.key
         IN IF raise_for_status(status)
            THEN /\ log' = Append(log, put)
                 /\ result' = Raise("HTTPError", status)
                 /\ created' = created
            ELSE /\ log' = log \o <<put, Http("GET", item_url,
                                              [headers |-> self.headers], 200, data)>>
                 /\ result' = Return(from_api_response(data))
                 /\ created' = [k \in DOMAIN created |->
                                  created[k] \/ FileUrl(k) = frame.file_upload_url]
    /\ pc' = "done"
    /\ UNCHANGED <<self, threads, server, cli, frame, files, ncalls>>

(* 3. Upload the file content and return the item built in step 2 *)
upload_attachment_put ==
    /\ pc = "up_put"
    /\ \E status \in Statuses :
         LET kw == [headers |-> upload_headers(self), data |-> frame.file_content]
         IN /\ log' = Append(log, Http("PUT", frame.file_upload_url, kw, status, None))
            /\ IF raise_for_status(status)
               THEN /\ result' = Raise("HTTPError", status)
                    /\ created' = created
               ELSE /\ result' = Return(frame.created_attachment_item)
                    /\ created' = [k \in DOMAIN created |->
                                     created[k] \/ FileUrl(k) = frame.file_upload_url]
    /\ pc' = "done"
    /\ UNCHANGED <<self, threads, server, cli, frame, files, ncalls>>

----------------------------------------------------------------------------
(* ZoteroClient.download_attachment *)

(* variant: the file link is validated before the item type *)
download_attachment_validate_link_first(attachment_item, attachment_id) ==
    IF "file" \notin DOMAIN attachment_item.links
    THEN Raise("ValueError",
               "Attachment " \o attachment_id \o " does not have a downloadable file.")
    ELSE IF attachment_item.item_type # "attachment"
    THEN Raise("ValueError", "Item " \o attachment_id \o " is not an attachment.")
    ELSE Pending

(* variant: the file link is not validated, the lookup links['file'] raises *)
download_attachment_validate_no_link_check(attachment_item, attachment_id) ==
    IF attachment_item.item_type # "attachment"
    THEN Raise("ValueError", "Item " \o attachment_id \o " is not an attachment.")
    ELSE IF "file" \notin DOMAIN attachment_item.links
    THEN Raise("KeyError", "file")
    ELSE Pending

(* the two validations of the fetched item; Pending when both pass *)
download_attachment_validate(attachment_item, attachment_id) ==
    IF attachment_item.item_type # "attachment"
    THEN Raise("ValueError", "Item " \o attachment_id \o " is not an attachment.")
    ELSE IF "file" \notin DOMAIN attachment_item.links
    THEN Raise("ValueError",
               "Attachment " \o attachment_id \o " does not have a downloadable file.")
    ELSE Pending

RECURSIVE Concat(_)
Concat(chunks) ==
    IF chunks = <<>> THEN <<>> ELSE Head(chunks) \o Concat(Tail(chunks))

(* variant: the destination is opened for appending *)
download_write_append(previous, chunks) == previous \o Concat(chunks)

(* with open(output_path, 'wb') as f: for chunk in ...: f.write(chunk)      *)
(* the content of the destination after the chunks written, given what it   *)
(* held before                                                              *)
download_write(previous, chunks) == Concat(chunks)

download_attachment_call ==
    /\ pc = "idle"
    /\ ncalls < MaxCalls
    /\ \E attachment_id \in ItemIds, output_path \in Paths :
         frame' = [op |-> "download_attachment", attachment_id |-> attachment_id,
                   output_path |-> output_path]
    /\ pc' = "dl_item"
    /\ log' = <<>>
    /\ result' = Pending
    /\ ncalls' = ncalls + 1
    /\ UNCHANGED <<self, threads, server, cli, created, files>>

(* get_item, then the validations and the lookup of the download url *)
download_attachment_get_item ==
    /\ pc = "dl_item"
    /\ \E status \in Statuses, data \in ItemResponses(frame.attachment_id) :
         LET url == LibraryUrl(self) \o "/items/" \o frame.attachment_id
             kw == [headers |-> self.headers]
             attachment_item == from_api_response(data)
             invalid == download_attachment_validate(attachment_item, frame.attachment_id)
         IN IF raise_for_status(status)
            THEN /\ log' = Append(log, Http("GET", url, kw, status, None))
                 /\ result' = Raise("HTTPError", status)
                 /\ pc' = "done"
                 /\ frame' = frame
            ELSE /\ log' = Append(log, Http("GET", url, kw, status, data))
                 /\ IF invalid # Pending
                    THEN /\ result' = invalid
                         /\ pc' = "done"
                         /\ frame' = frame
                    ELSE IF "href" \notin DOMAIN attachment_item.links.file
                    THEN /\ result' = Raise("KeyError", "href")
                         /\ pc' = "done"
                         /\ frame' = frame
                    ELSE /\ frame' = [download_url |-> attachment_item.links.file.href]
                                     @@ frame
                         /\ pc' = "dl_file"
                         /\ result' = result
    /\ UNCHANGED <<self, threads, server, cli, created, files, ncalls>>

(* variant: the destination is opened 'wb' before the status is looked at *)
download_attachment_get_file_open_first ==
    /\ pc = "dl_file"
    /\ \E status \in Statuses, body \in Bodies :
       \E chunks \in Chunkings(body) :
       \E arrived \in 0..Len(chunks) :
         LET kw == [headers |-> self.headers, stream |-> TRUE]
             response == [content |-> body, chunks |-> chunks]
         IN IF raise_for_status(status)
            THEN /\ log' = log \o <<Http("GET", frame.download_url, kw, status, None),
                                    Open(frame.output_path, "wb", TRUE)>>
                 /\ result' = Raise("HTTPError", status)
                 /\ files' = (frame.output_path :> <<>>) @@ files
            ELSE /\ log' = log \o <<Http("GET", frame.download_url, kw, status, response),
                                    Open(frame.output_path, "wb", TRUE)>>
                 /\ files' = (frame.output_path :>
                                 download_write(<<>>, SubSeq(chunks, 1, arrived)))
                             @@ files
                 /\ result' = IF arrived = Len(chunks)
                              THEN Return(frame.output_path)
                              ELSE Raise("ChunkedEncodingError", arrived)
    /\ pc' = "done"
    /\ UNCHANGED <<self, threads, server, cli, frame, created, ncalls>>

(* the streamed file GET; the destination is opened 'wb' and the chunks     *)
(* written as they arrive; the stream may break after any chunk             *)
download_attachment_get_file ==
    /\ pc = "dl_file"
    /\ \E status \in Statuses, body \in Bodies :
       \E chunks \in Chunkings(body) :
       \E arrived \in 0..Len(chunks) :
         LET kw == [headers |-> self.headers, stream |-> TRUE]
             response == [content |-> body, chunks |-> chunks]
             previous == Get(files, frame.output_path, <<>>)
         IN IF raise_for_status(status)
            THEN /\ log' = Append(log, Http("GET", frame.download_url, kw, status, None))
                 /\ result' = Raise("HTTPError", status)
                 /\ files' = files
            ELSE /\ log' = log \o <<Http("GET", frame.download_url, kw, status, response),
                                    Open(frame.output_path, "wb", TRUE)>>
                 /\ files' = (frame.output_path :>
                                 download_write(previous, SubSeq(chunks, 1, arrived)))
                             @@ files
                 /\ result' = IF arrived = Len(chunks)
                              THEN Return(frame.output_path)
                              ELSE Raise("ChunkedEncodingError", arrived)
    /\ pc' = "done"
    /\ UNCHANGED <<self, threads, server, cli, frame, created, ncalls>>

----------------------------------------------------------------------------
(* The conditional mutations *)

(* headers = self.headers.copy();                                           *)
(* if if_unmodified_since_version: headers[...] = str(version)              *)
version_headers(c, if_unmodified_since_version) ==
    IF if_unmodified_since_version # None /\ if_unmodified_since_version[1] # 0
    THEN ("If-Unmodified-Since-Version" :> ToString(if_unmodified_since_version[1]))
         @@ c.headers
    ELSE c.headers

OptVersions == {None} \cup {Some(v) : v \in Versions}

(* variant: after a 412 the resource is read again and the request repeated *)
OneRequest_retry_on_conflict(fr, ev, value) ==
    /\ pc = "idle"
    /\ ncalls < MaxCalls
    /\ frame' = fr
    /\ log' = IF ev.status = 412
              THEN <<ev, Http("GET", ev.url, [headers |-> self.headers], 200, None),
                     [ev EXCEPT !.status = 200]>>
              ELSE <<ev>>
    /\ result' = IF raise_for_status(ev.status) /\ ev.status # 412
                 THEN Raise("HTTPError", ev.status)
                 ELSE Return(value)
    /\ pc' = "done"
    /\ ncalls' = ncalls + 1
    /\ UNCHANGED <<self, threads, server, cli, created, files>>

(* a call of one request: the request, then the outcome *)
OneRequest(fr, ev, value) ==
    /\ pc = "idle"
    /\ ncalls < MaxCalls
    /\ frame' = fr
    /\ log' = <<ev>>
    /\ result' = IF raise_for_status(ev.status) THEN Raise("HTTPError", ev.status)
                 ELSE Return(value)
    /\ pc' = "done"
    /\ ncalls' = ncalls + 1
    /\ UNCHANGED <<self, threads, server, cli, created, files>>

update_item ==
    \E item_id \in ItemIds, item_data \in ItemData, version \in OptVersions,
       status \in Statuses :
    \E body \in UpdatedItemResponses(item_id, item_data) :
       OneRequest([op |-> "update_item", item_id |-> item_id, item_data |-> item_data,
                   if_unmodified_since_version |-> version],
                  Http("PUT", LibraryUrl(self) \o "/items/" \o item_id,
                       [headers |-> version_headers(self, version), json |-> item_data],
                       status, IF raise_for_status(status) THEN None ELSE body),
                  from_api_response(body[1]))

delete_item ==
    \E item_id \in ItemIds, version \in OptVersions, status \in Statuses :
       OneRequest([op |-> "delete_item", item_id |-> item_id,
                   if_unmodified_since_version |-> version],
                  Http("DELETE", LibraryUrl(self) \o "/items/" \o item_id,
                       [headers |-> version_headers(self, version)], status, None),
                  None)

update_collection ==
    \E collection_id \in CollectionIds, collection_data \in CollectionData,
       version \in OptVersions, status \in Statuses :
    \E body \in UpdatedCollectionResponses(collection_id, collection_data) :
       OneRequest([op |-> "update_collection", collection_id |-> collection_id,
                   collection_data |-> collection_data,
                   if_unmodified_since_version |-> version],
                  Http("PUT", LibraryUrl(self) \o "/collections/" \o collection_id,
                       [headers |-> version_headers(self, version),
                        json |-> collection_data],
                       status, IF raise_for_status(status) THEN None ELSE body),
                  collection_from_api_response(body[1]))

delete_collection ==
    \E collection_id \in CollectionIds, version \in OptVersions, status \in Statuses :
       OneRequest([op |-> "delete_collection", collection_id |-> collection_id,
                   if_unmodified_since_version |-> version],
                  Http("DELETE", LibraryUrl(self) \o "/collections/" \o collection_id,
                       [headers |-> version_headers(self, version)], status, None),
                  None)

add_tags_to_item ==
    \E item_id \in ItemIds, tags \in TagLists, version \in OptVersions,
       status \in Statuses :
       OneRequest([op |-> "add_tags_to_item", item_id |-> item_id, tags |-> tags,
                   if_unmodified_since_version |-> version],
                  Http("POST", LibraryUrl(self) \o "/items/" \o item_id \o "/tags",
                       [headers |-> version_headers(self, version),
                        json |-> [i \in 1..Len(tags) |-> [tag |-> tags[i]]]],
                       status, None),
                  None)

(* remove_tags_from_item: for tag_name in tags, one DELETE each *)
remove_tags_from_item_call ==
    /\ pc = "idle"
    /\ ncalls < MaxCalls
    /\ \E item_id \in ItemIds, tags \in TagLists, version \in OptVersions :
         /\ frame' = [op |-> "remove_tags_from_item", item_id |-> item_id,
                      tags |-> tags, if_unmodified_since_version |-> version, i |-> 1]
         /\ pc' = IF tags = <<>> THEN "done" ELSE "rm_tag"
         /\ result' = IF tags = <<>> THEN Return(None) ELSE Pending
    /\ log' = <<>>
    /\ ncalls' = ncalls + 1
    /\ UNCHANGED <<self, threads, server, cli, created, files>>

(* variant: a failed DELETE is skipped and the loop goes on *)
remove_tags_from_item_delete_skipping_failures ==
    /\ pc = "rm_tag"
    /\ \E status \in Statuses :
         LET tag_name == frame.tags[frame.i]
             url == LibraryUrl(self) \o "/items/" \o frame.item_id \o "/tags/" \o tag_name
             kw == [headers |-> version_headers(self, frame.if_unmodified_since_version)]
         IN /\ log' = Append(log, Http("DELETE", url, kw, status, None))
            /\ frame' = [frame EXCEPT !.i = @ + 1]
            /\ pc' = IF frame.i = Len(frame.tags) THEN "done" ELSE "rm_tag"
            /\ result' = IF frame.i = Len(frame.tags) THEN Return(None) ELSE result
    /\ UNCHANGED <<self, threads, server, cli, created, files, ncalls>>

(* variant: after a failed DELETE the call waits for a retry that never comes *)
remove_tags_from_item_request_waiting(status) ==
    LET tag_name == frame.tags[frame.i]
        url == LibraryUrl(self) \o "/items/" \o frame.item_id \o "/tags/" \o tag_name
        kw == [headers |-> version_headers(self, frame.if_unmodified_since_version)]
    IN /\ log' = Append(log, Http("DELETE", url, kw, status, None))
       /\ IF raise_for_status(status)
          THEN /\ result' = result
               /\ pc' = "rm_wait"
               /\ frame' = frame
          ELSE /\ frame' = [frame EXCEPT !.i = @ + 1]
               /\ pc' = IF frame.i = Len(frame.tags) THEN "done" ELSE "rm_tag"
               /\ result' = IF frame.i = Len(frame.tags) THEN Return(None) ELSE result
       /\ UNCHANGED <<self, threads, cli, created, files, ncalls>>

(* one pass of the loop: the DELETE of tags[i], answered with `status` *)
remove_tags_from_item_request(status) ==
    LET tag_name == frame.tags[frame.i]
        url == LibraryUrl(self) \o "/items/" \o frame.item_id \o "/tags/" \o tag_name
        kw == [headers |-> version_headers(self, frame.if_unmodified_since_version)]
    IN /\ log' = Append(log, Http("DELETE", url, kw, status, None))
       /\ IF raise_for_status(status)
          THEN /\ result' = Raise("HTTPError", status)
               /\ pc' = "done"
               /\ frame' = frame
          ELSE /\ frame' = [frame EXCEPT !.i = @ + 1]
               /\ pc' = IF frame.i = Len(frame.tags) THEN "done" ELSE "rm_tag"
               /\ result' = IF frame.i = Len(frame.tags) THEN Return(None) ELSE result
       /\ UNCHANGED <<self, threads, cli, created, files, ncalls>>

remove_tags_from_item_delete ==
    /\ pc = "rm_tag"
    /\ \E status \in Statuses : remove_tags_from_item_request(status)
    /\ UNCHANGED server

----------------------------------------------------------------------------
(* Python str operations on sequences of characters *)

CharCode ==
    (" " :> 32) @@ ("!" :> 33) @@ ("-" :> 45) @@ ("1" :> 49) @@ ("2" :> 50)
    @@ ("A" :> 65) @@ ("B" :> 66) @@ ("_" :> 95) @@ ("a" :> 97) @@ ("b" :> 98)

isalnum(c) ==
    \/ CharCode[c] \in 48..57
    \/ CharCode[c] \in 65..90
    \/ CharCode[c] \in 97..122

lower(s) ==
    [i \in 1..Len(s) |->
        IF CharCode[s[i]] \in 65..90
        THEN CHOOSE c \in DOMAIN CharCode : CharCode[c] = CharCode[s[i]] + 32
        ELSE s[i]]

(* a < b in the order of str: by the first differing character, else length *)
str_lt(a, b) ==
    \E n \in 0..Len(a) :
        /\ n <= Len(b)
        /\ \A i \in 1..n : a[i] = b[i]
        /\ \/ n = Len(a) /\ n < Len(b)
           \/ n < Len(a) /\ n < Len(b) /\ CharCode[a[n + 1]] < CharCode[b[n + 1]]

RECURSIVE sorted(_)
sorted(names) ==
    IF names = <<>> THEN <<>>
    ELSE LET rest == sorted(Tail(names))
             before == SelectSeq(rest, LAMBDA x : ~str_lt(Head(names), x)
                                                  /\ x # Head(names))
             after == SelectSeq(rest, LAMBDA x : str_lt(Head(names), x)
                                                 \/ x = Head(names))
         IN before \o <<Head(names)>> \o after

RECURSIVE join(_, _)
join(sep, names) ==
    IF names = <<>> THEN <<>>
    ELSE IF Len(names) = 1 THEN names[1]
    ELSE names[1] \o sep \o join(sep, Tail(names))

(* s.split(sep)[0]: the text before the first sep, all of s when it has none *)
split_first(s, sep) ==
    LET at == {i \in 1..Len(s) : s[i] = sep}
    IN IF at = {} THEN s
       ELSE SubSeq(s, 1, (CHOOSE i \in at : \A j \in at : i <= j) - 1)

----------------------------------------------------------------------------
(* ZoteroClient.get_items: the query parameters *)

get_items_params(limit, q, qmode, item_type, tag, include_trashed) ==
    (IF limit # None /\ limit[1] # 0 THEN ("limit" :> limit[1]) ELSE <<>>)
    @@ (IF q # None /\ q[1] # "" THEN ("q" :> q[1]) ELSE <<>>)
    @@ (IF qmode # None /\ qmode[1] # "" THEN ("qmode" :> qmode[1]) ELSE <<>>)
    @@ (IF item_type # None /\ item_type[1] # "" THEN ("itemType" :> item_type[1])
        ELSE <<>>)
    @@ (IF tag # None /\ tag[1] # "" THEN ("tag" :> tag[1]) ELSE <<>>)
    @@ (IF include_trashed # None /\ include_trashed[1] THEN ("includeTrashed" :> 1)
        ELSE <<>>)

----------------------------------------------------------------------------
(* ZoteroClient.find_duplicates *)

normalized_title(item) == lower(SelectSeq(item.title, isalnum))

(* variant: the names are taken in the order of the creators *)
creator_last_names_unsorted(item) ==
    LET named == SelectSeq(item.creators,
                           LAMBDA c : "lastName" \in DOMAIN c /\ c.lastName # <<>>)
    IN [i \in 1..Len(named) |-> lower(named[i].lastName)]

creator_last_names(item) ==
    LET named == SelectSeq(item.creators,
                           LAMBDA c : "lastName" \in DOMAIN c /\ c.lastName # <<>>)
    IN sorted([i \in 1..Len(named) |-> lower(named[i].lastName)])

creators_key(item) == join(<<"_">>, creator_last_names(item))

(* None when the date is empty, else the text before its first '-' *)
year(item) == IF item.date # <<>> THEN Some(split_first(item.date, "-")) ELSE None

(* variant: the item type is part of the key *)
duplicate_key_with_item_type(item) ==
    IF /\ normalized_title(item) # <<>>
       /\ creators_key(item) # <<>>
       /\ year(item) # None /\ year(item)[1] # <<>>
    THEN Some(normalized_title(item) \o <<"-">> \o creators_key(item) \o <<"-">>
              \o year(item)[1] \o <<"-", item.item_type>>)
    ELSE None

(* variant: the year is not required, and is the empty text when there is none *)
duplicate_key_without_year_check(item) ==
    IF /\ normalized_title(item) # <<>>
       /\ creators_key(item) # <<>>
    THEN Some(normalized_title(item) \o <<"-">> \o creators_key(item) \o <<"-">>
              \o (IF year(item) = None THEN <<>> ELSE year(item)[1]))
    ELSE None

(* Some(duplicate_key) for an item with title, creators and year, else None *)
duplicate_key(item) ==
    IF /\ normalized_title(item) # <<>>
       /\ creators_key(item) # <<>>
       /\ year(item) # None /\ year(item)[1] # <<>>
    THEN Some(normalized_title(item) \o <<"-">> \o creators_key(item) \o <<"-">>
              \o year(item)[1])
    ELSE None

(* variant: a key is reported as soon as one item has it *)
RECURSIVE find_duplicates_loop_singletons(_, _, _)
find_duplicates_loop_singletons(all_items, item_map, duplicates) ==
    IF all_items = <<>> THEN duplicates
    ELSE LET item == Head(all_items)
             key == duplicate_key(item)
         IN IF key = None
            THEN find_duplicates_loop_singletons(Tail(all_items), item_map, duplicates)
            ELSE IF key[1] \in DOMAIN duplicates
            THEN find_duplicates_loop_singletons(
                     Tail(all_items), item_map,
                     [duplicates EXCEPT ![key[1]] = Append(@, item)])
            ELSE find_duplicates_loop_singletons(
                     Tail(all_items), item_map, (key[1] :> <<item>>) @@ duplicates)

(* variant: a further item of a key is put in front of its group *)
RECURSIVE find_duplicates_loop_prepend(_, _, _)
find_duplicates_loop_prepend(all_items, item_map, duplicates) ==
    IF all_items = <<>> THEN duplicates
    ELSE LET item == Head(all_items)
             key == duplicate_key(item)
         IN IF key = None
            THEN find_duplicates_loop_prepend(Tail(all_items), item_map, duplicates)
            ELSE IF key[1] \in DOMAIN item_map
            THEN LET started == IF key[1] \notin DOMAIN duplicates
                                THEN (key[1] :> <<item_map[key[1]]>>) @@ duplicates
                                ELSE duplicates
                 IN find_duplicates_loop_prepend(
                        Tail(all_items), item_map,
                        [started EXCEPT ![key[1]] = <<item>> \o @])
            ELSE find_duplicates_loop_prepend(
                     Tail(all_items), (key[1] :> item) @@ item_map, duplicates)

(* for item in all_items: ...; the dict `duplicates` after the loop *)
RECURSIVE find_duplicates_loop(_, _, _)
find_duplicates_loop(all_items, item_map, duplicates) ==
    IF all_items = <<>> THEN duplicates
    ELSE LET item == Head(all_items)
             key == duplicate_key(item)
         IN IF key = None
            THEN find_duplicates_loop(Tail(all_items), item_map, duplicates)
            ELSE IF key[1] \in DOMAIN item_map
            THEN LET started == IF key[1] \notin DOMAIN duplicates
                                THEN (key[1] :> <<item_map[key[1]]>>) @@ duplicates
                                ELSE duplicates
                 IN find_duplicates_loop(
                        Tail(all_items), item_map,
                        [started EXCEPT ![key[1]] = Append(@, item)])
            ELSE find_duplicates_loop(
                     Tail(all_items), (key[1] :> item) @@ item_map, duplicates)

(* variant: the listing is requested with a page limit *)
find_duplicates_params_limited ==
    get_items_params(Some(100), None, None, None, None, None)

(* all_items = self.get_items(limit=None) *)
find_duplicates_params == get_items_params(None, None, None, None, None, None)

find_duplicates ==
    /\ pc = "idle"
    /\ ncalls < MaxCalls
    /\ \E status \in ReadStatuses, listing \in ItemListings :
         LET url == LibraryUrl(self) \o "/items"
             kw == [headers |-> self.headers, params |-> find_duplicates_params]
             all_items == [i \in 1..Len(listing) |-> from_api_response(listing[i])]
         IN IF raise_for_status(status)
            THEN /\ log' = <<Http("GET", url, kw, status, None)>>
                 /\ result' = Raise("HTTPError", status)
            ELSE /\ log' = <<Http("GET", url, kw, status, listing)>>
                 /\ result' = Return(find_duplicates_loop(all_items, <<>>, <<>>))
    /\ frame' = [op |-> "find_duplicates"]
    /\ pc' = "done"
    /\ ncalls' = ncalls + 1
    /\ UNCHANGED <<self, threads, server, cli, created, files>>

----------------------------------------------------------------------------
(* Two callers of one client. A call reads self.headers once, when it builds  *)
(* the headers of its request, and sends the request in a later step; the     *)
(* steps of the two callers interleave.                                       *)

Threads == {"t1", "t2"}

SharedOps == {"get_item", "update_item", "upload_attachment"}

(* variant: headers = self.headers; headers[name] = value *)
set_request_header_in_place(c, name, value) ==
    [client |-> [c EXCEPT !.headers = (name :> value) @@ @],
     headers |-> (name :> value) @@ c.headers]

(* headers = self.headers.copy(); headers[name] = value *)
set_request_header(c, name, value) ==
    [client |-> c, headers |-> (name :> value) @@ c.headers]

call_begin(t) ==
    /\ threads[t].pc = "idle"
    /\ ncalls < MaxCalls
    /\ \E op \in SharedOps, version \in OptVersions :
         /\ op # "update_item" => version = None
         /\ threads' = [threads EXCEPT ![t] =
                           [pc |-> IF op = "get_item" THEN "ready" ELSE "begun",
                            op |-> op,
                            if_unmodified_since_version |-> version,
                            started |-> Len(log)]]
    /\ ncalls' = ncalls + 1
    /\ UNCHANGED <<self, pc, frame, log, result, created, files, server, cli>>

(* update_item and upload_attachment build the headers of their request from  *)
(* a copy of self.headers                                                     *)
call_headers(t) ==
    /\ threads[t].pc = "begun"
    /\ LET call == threads[t]
           version == call.if_unmodified_since_version
           built ==
               IF call.op = "update_item" /\ version # None /\ version[1] # 0
               THEN set_request_header(self, "If-Unmodified-Since-Version",
                                       ToString(version[1]))
               ELSE IF call.op = "upload_attachment"
               THEN set_request_header(self, "Content-Type", "application/octet-stream")
               ELSE [client |-> self, headers |-> self.headers]   \* the copy alone
       IN /\ self' = built.client
          /\ threads' = [threads EXCEPT ![t] =
                            [call EXCEPT !.pc = "ready"] @@ [headers |-> built.headers]]
    /\ UNCHANGED <<pc, frame, log, result, created, files, ncalls, server, cli>>

call_send(t) ==
    /\ threads[t].pc = "ready"
    /\ \E status \in Statuses :
         LET call == threads[t]
             method == IF call.op = "get_item" THEN "GET" ELSE "PUT"
             \* get_item passes self.headers itself
             headers == IF call.op = "get_item" THEN self.headers ELSE call.headers
         IN log' = Append(log, Http(method, LibraryUrl(self) \o "/items/I1",
                                    [headers |-> headers], status, None)
                               @@ [thread |-> t, call |-> call])
    /\ threads' = [threads EXCEPT ![t] = [pc |-> "idle"]]
    /\ UNCHANGED <<self, pc, frame, result, created, files, ncalls, server, cli>>

----------------------------------------------------------------------------
(* ZoteroClient.summarize_item_content *)

(* the openai_api_key a client is constructed with *)
OpenAIKeys == { None, Some(""), Some("sk-test") }

Prompts == { "Summarize the following text:", "tl;dr" }

(* What the server may answer to the GET of the item to summarize *)
SummaryItemResponses(id) ==
    { [key |-> id, version |-> 1,
       data |-> [key |-> id, itemType |-> "book", title |-> title] @@ abstract]
      : title \in Titles,
        abstract \in { <<>>, [abstractNote |-> Some(<<>>)],
                       [abstractNote |-> Some(<<"A">>)] } }

(* What client.chat.completions.create does: a completion, or an exception *)
ChatOutcomes ==
    { [kind |-> "completion", content |-> content]
      : content \in { <<"S">>, <<" ", "S", "\n">>, <<>> } }
    \cup { [kind |-> "exception", exc |-> "RateLimitError",
             message |-> "Rate limit exceeded"],
           [kind |-> "exception", exc |-> "APIConnectionError",
             message |-> "Connection error."],
           \* response.choices is empty
           [kind |-> "exception", exc |-> "IndexError",
             message |-> "list index out of range"],
           \* message.content is None
           [kind |-> "exception", exc |-> "AttributeError",
             message |-> "'NoneType' object has no attribute 'strip'"] }

Whitespace == {" ", "\n"}

RECURSIVE lstrip(_)
lstrip(s) == IF s # <<>> /\ Head(s) \in Whitespace THEN lstrip(Tail(s)) ELSE s

RECURSIVE rstrip(_)
rstrip(s) ==
    IF s # <<>> /\ s[Len(s)] \in Whitespace THEN rstrip(SubSeq(s, 1, Len(s) - 1)) ELSE s

strip(s) == rstrip(lstrip(s))

(* variant: the key is not looked at *)
openai_key_configured_unchecked(c) == TRUE

(* not (not self.openai_api_key) *)
openai_key_configured(c) == c.openai_api_key # None /\ c.openai_api_key[1] # ""

(* item.title, then "\n\nAbstract: {item.abstract_note}" for a truthy abstract *)
content_to_summarize(item) ==
    IF item.abstract_note # None /\ item.abstract_note[1] # <<>>
    THEN item.title
         \o <<"\n", "\n", "A", "b", "s", "t", "r", "a", "c", "t", ":", " ">>
         \o item.abstract_note[1]
    ELSE item.title

summarize_item_content_call ==
    /\ pc = "idle"
    /\ ncalls < MaxCalls
    /\ \E item_id \in ItemIds, prompt \in Prompts :
         frame' = [op |-> "summarize_item_content", item_id |-> item_id,
                   prompt |-> prompt]
    /\ IF openai_key_configured(self)
       THEN /\ pc' = "sum_item"
            /\ result' = Pending
       ELSE /\ pc' = "done"
            /\ result' = Raise("ValueError", "OpenAI API key is not configured.")
    /\ log' = <<>>
    /\ ncalls' = ncalls + 1
    /\ UNCHANGED <<self, threads, server, cli, created, files>>

(* item = self.get_item(item_id), then the content *)
summarize_get_item ==
    /\ pc = "sum_item"
    /\ \E status \in ReadStatuses, data \in SummaryItemResponses(frame.item_id) :
         LET url == LibraryUrl(self) \o "/items/" \o frame.item_id
             kw == [headers |-> self.headers]
             content == content_to_summarize(from_api_response(data))
         IN IF raise_for_status(status)
            THEN /\ log' = Append(log, Http("GET", url, kw, status, None))
                 /\ result' = Raise("HTTPError", status)
                 /\ pc' = "done"
                 /\ frame' = frame
            ELSE /\ log' = Append(log, Http("GET", url, kw, status, data))
                 /\ IF content = <<>>
                    THEN /\ result' = Return("No content available to summarize.")
                         /\ pc' = "done"
                         /\ frame' = frame
                    ELSE /\ result' = Pending
                         /\ pc' = "sum_chat"
                         /\ frame' = frame @@ [content_to_summarize |-> content]
    /\ UNCHANGED <<self, threads, server, cli, created, files, ncalls>>

(* variant: the exception of the completion is let through *)
openai_error_unwrapped(e) == Raise(e.exc, e.message)

(* except Exception as e: raise RuntimeError(f"OpenAI API error: {e}") *)
openai_error(e) == Raise("RuntimeError", "OpenAI API error: " \o e.message)

(* the chat completion, inside try/except Exception *)
summarize_chat ==
    /\ pc = "sum_chat"
    /\ \E outcome \in ChatOutcomes :
         /\ log' = Append(log,
                [ev |-> "openai", api_key |-> self.openai_api_key[1],
                 model |-> "gpt-3.5-turbo",
                 messages |-> << [role |-> "system", content |-> frame.prompt],
                                 [role |-> "user",
                                  content |-> frame.content_to_summarize] >>,
                 outcome |-> outcome])
         /\ result' = IF outcome.kind = "completion"
                      THEN Return(strip(outcome.content))
                      ELSE openai_error(outcome)
    /\ pc' = "done"
    /\ UNCHANGED <<self, threads, server, cli, created, files, ncalls, frame>>

----------------------------------------------------------------------------
(* A server that keeps a version for each item: a successful mutation of an  *)
(* item advances its version, and a request whose If-Unmodified-Since-Version *)
(* is below the version of the item is answered 412 and changes nothing.      *)

ServerTags == {"t1", "t2", "t3"}

VersionedServers ==
    { [id \in ItemIds |-> [version |-> v, tags |-> ServerTags, data |-> <<>>]]
      : v \in Versions }

(* the highest version an item can reach: every call can write once per tag *)
MaxLive == MaxVersion + MaxCalls * Cardinality(ServerTags)

(* int(header value) *)
int(s) == CHOOSE n \in 0..MaxLive : ToString(n) = s

precondition_failed(item, headers) ==
    /\ "If-Unmodified-Since-Version" \in DOMAIN headers
    /\ item.version > int(headers["If-Unmodified-Since-Version"])

(* GET items/{id} *)
server_get_item(srv, id) ==
    [key |-> id, version |-> srv[id].version, data |-> ("key" :> id) @@ srv[id].data]

(* PUT items/{id} *)
server_put_item(srv, id, headers, item_data) ==
    IF precondition_failed(srv[id], headers)
    THEN [status |-> 412, server |-> srv]
    ELSE [status |-> 200,
          server |-> [srv EXCEPT ![id].version = @ + 1, ![id].data = item_data]]

(* DELETE items/{id}/tags/{tag} *)
server_delete_tag(srv, id, tag, headers) ==
    IF precondition_failed(srv[id], headers)
    THEN [status |-> 412, server |-> srv]
    ELSE IF tag \notin srv[id].tags
    THEN [status |-> 404, server |-> srv]
    ELSE [status |-> 204,
          server |-> [srv EXCEPT ![id].version = @ + 1, ![id].tags = @ \ {tag}]]

(* a client reads an item and keeps it: item = client.get_item(item_id) *)
snapshot_get_item(t) ==
    /\ threads[t].pc = "idle"
    /\ pc # "rm_tag"
    /\ ncalls < MaxCalls
    /\ \E item_id \in ItemIds :
         threads' = [threads EXCEPT ![t] =
                        [pc |-> "holding",
                         item |-> from_api_response(server_get_item(server, item_id))]]
    /\ ncalls' = ncalls + 1
    /\ UNCHANGED <<self, pc, frame, log, result, created, files, server, cli>>

(* client.update_item(item.key, item_data, if_unmodified_since_version=item.version) *)
snapshot_update_item(t) ==
    /\ threads[t].pc = "holding"
    /\ pc # "rm_tag"
    /\ \E item_data \in ItemData :
         LET item == threads[t].item
             headers == version_headers(self, Some(item.version))
             answer == server_put_item(server, item.key, headers, item_data)
             request == Http("PUT", LibraryUrl(self) \o "/items/" \o item.key,
                             [headers |-> headers, json |-> item_data],
                             answer.status, None)
         IN /\ server' = answer.server
            /\ threads' = [threads EXCEPT ![t] =
                   [pc |-> "updated", item |-> item, request |-> request,
                    result |-> IF raise_for_status(answer.status)
                               THEN Raise("HTTPError", answer.status)
                               ELSE Return(from_api_response(
                                        server_get_item(answer.server, item.key)))]]
    /\ UNCHANGED <<self, pc, frame, log, result, created, files, ncalls, cli>>

(* remove_tags_from_item against this server *)
versioned_remove_tags_delete ==
    /\ pc = "rm_tag"
    /\ LET answer == server_delete_tag(
                         server, frame.item_id, frame.tags[frame.i],
                         version_headers(self, frame.if_unmodified_since_version))
       IN /\ remove_tags_from_item_request(answer.status)
          /\ server' = answer.server

----------------------------------------------------------------------------
(* cli/main.py: upload_attachment_cli. The handler calls                     *)
(* client.upload_attachment with the arguments of the command line and       *)
(* reports its outcome. A printed line is the sequence of the pieces of its   *)
(* f-string: the literal texts and the values put between them.             *)

(* variant: FileNotFoundError is handled by `except Exception` *)
upload_attachment_cli_report_generic(outcome, file_path) ==
    IF outcome.kind = "return"
    THEN [line |-> <<"Successfully uploaded attachment: ", outcome.value.title,
                     " (Key: ", outcome.value.key, ")">>,
          exit |-> None]
    ELSE [line |-> <<"Error uploading attachment: ", outcome.exc>>, exit |-> Some(1)]

(* what the handler prints and whether it calls sys.exit, for an outcome *)
upload_attachment_cli_report(outcome, file_path) ==
    IF outcome.kind = "return"
    THEN [line |-> <<"Successfully uploaded attachment: ", outcome.value.title,
                     " (Key: ", outcome.value.key, ")">>,
          exit |-> None]
    ELSE IF outcome.exc = "FileNotFoundError"
    THEN [line |-> <<"Error: File not found at ", file_path>>, exit |-> Some(1)]
    ELSE [line |-> <<"Error uploading attachment: ", outcome.exc>>, exit |-> Some(1)]

upload_attachment_cli ==
    /\ pc = "done"
    /\ frame.op = "upload_attachment"
    /\ LET report == upload_attachment_cli_report(result, frame.file_path)
       IN cli' = [cli EXCEPT !.stdout = Append(@, report.line),
                             !.exit = report.exit,
                             !.pc = "exited"]
    /\ pc' = "reported"
    /\ UNCHANGED <<self, threads, server, frame, log, result, created, files, ncalls>>

----------------------------------------------------------------------------
(* main(): the parsers of the command line and the dispatch to a handler.   *)
(* A command line is the words that select a parser and the set of options  *)
(* given after them; the values of the options are left out.                *)

(* parser.set_defaults(func=...) as a set of <<attribute, value>> *)
set_defaults(func) == { <<"func", func>> }

LeafParser(path, required, optional, defaults) ==
    [path |-> path, required |-> required, optional |-> optional, defaults |-> defaults]

Parsers ==
    { LeafParser(<<"items", "list">>, {},
                 {"--limit", "--query", "--qmode", "--item-type", "--tag", "--include-trashed"},
                 set_defaults("list_items")),
      LeafParser(<<"items", "create">>, {"--data"}, {}, set_defaults("create_item_cli")),
      LeafParser(<<"items", "update">>, {"--item-id", "--data"}, {"--version"},
                 set_defaults("update_item_cli")),
      LeafParser(<<"items", "delete">>, {"--item-id"}, {"--version"},
                 set_defaults("delete_item_cli")),
      LeafParser(<<"collections", "list">>, {}, {}, set_defaults("list_collections")),
      LeafParser(<<"collections", "create">>, {"--data"}, {},
                 set_defaults("create_collection_cli")),
      LeafParser(<<"collections", "update">>, {"--collection-id", "--data"}, {"--version"},
                 set_defaults("update_collection_cli")),
      LeafParser(<<"collections", "delete">>, {"--collection-id"}, {"--version"},
                 set_defaults("delete_collection_cli")),
      LeafParser(<<"tags", "list">>, {}, {"--item-id"}, set_defaults("list_tags")),
      LeafParser(<<"tags", "add">>, {"--item-id", "--tags"}, {"--version"},
                 set_defaults("add_tags_to_item_cli")),
      LeafParser(<<"tags", "remove">>, {"--item-id", "--tags"}, {"--version"},
                 set_defaults("remove_tags_from_item_cli")),
      LeafParser(<<"configure">>, {}, {}, set_defaults("configure_cli")),
      LeafParser(<<"attachments", "list">>, {}, {"--item-id", "--limit"},
                 set_defaults("list_attachments")),
      (* the upload parser is given its arguments and no defaults *)
      LeafParser(<<"attachments", "upload">>, {"--parent-item-id", "--file-path"},
                 {"--title"}, {}),
      LeafParser(<<"attachments", "download">>, {"--attachment-id", "--output-path"}, {},
                 set_defaults("download_attachment_cli")),
      LeafParser(<<"citations", "generate">>, {"--item-ids", "--style"},
                 {"--format", "--locale"}, set_defaults("generate_citations_cli")),
      LeafParser(<<"ai", "summarize">>, {"--item-id"}, {"--prompt"},
                 set_defaults("summarize_item_cli")),
      LeafParser(<<"duplicates", "find">>, {}, {}, set_defaults("find_duplicates_cli")),
      LeafParser(<<"export">>, {}, {"--format", "--output"},
                 set_defaults("export_items_cli")) }

(* add_subparsers(dest=...): the commands that take a subcommand *)
SubcommandDest ==
    [items |-> "item_command", collections |-> "collection_command",
     tags |-> "tag_command", attachments |-> "attachment_command",
     citations |-> "citation_command", ai |-> "ai_command",
     duplicates |-> "duplicates_command"]

Commands == { q.path[1] : q \in Parsers }

Subcommands == { q.path[2] : q \in { r \in Parsers : Len(r.path) = 2 } }

Words == Commands \cup Subcommands \cup {"bogus"}

ParserAt(words) == CHOOSE q \in Parsers : q.path = words

OptionsAt(words) ==
    IF \E q \in Parsers : q.path = words
    THEN ParserAt(words).required \cup ParserAt(words).optional
    ELSE {}

(* sys.argv[1:]: up to two words, then options of the parser the words name *)
(* or an option no parser has                                                *)
CommandLines ==
    UNION { { [words |-> w, options |-> o] :
                o \in SUBSET (OptionsAt(w) \cup {"--bogus"}) } :
            w \in {<<>>} \cup { <<c>> : c \in Words }
                         \cup { <<c, d>> : c \in Words, d \in Words } }

ArgparseError == [kind |-> "error", status |-> 2]

Namespace(command, subcommand, options, defaults) ==
    [kind |-> "namespace", command |-> command, subcommand |-> subcommand,
     options |-> options, defaults |-> defaults]

parse_leaf(q, argv) ==
    IF q.required \subseteq argv.options
       /\ argv.options \subseteq (q.required \cup q.optional)
    THEN Namespace(Some(q.path[1]),
                   IF Len(q.path) = 2 THEN Some(q.path[2]) ELSE None,
                   argv.options, q.defaults)
    ELSE ArgparseError

parse_args(argv) ==
    LET words == argv.words
    IN IF words = <<>>
       THEN IF argv.options = {} THEN Namespace(None, None, {}, {}) ELSE ArgparseError
       ELSE IF words[1] \notin Commands THEN ArgparseError
       ELSE IF Len(words) = 1 /\ words[1] \in DOMAIN SubcommandDest
       THEN IF argv.options = {}
            THEN Namespace(Some(words[1]), None, {}, {})
            ELSE ArgparseError
       ELSE IF \E q \in Parsers : q.path = words
       THEN parse_leaf(ParserAt(words), argv)
       ELSE ArgparseError

(* `not args.command`, and `args.command == c and not args.<dest of c>` *)
missing_command(args) ==
    \/ args.command = None
    \/ /\ args.command[1] \in DOMAIN SubcommandDest
       /\ args.subcommand = None

hasattr(args, name) == \E d \in args.defaults : d[1] = name

getattr(args, name) == (CHOOSE d \in args.defaults : d[1] = name)[2]

(* args.func(args): an attribute the namespace lacks raises AttributeError, *)
(* which nothing catches                                                     *)
main_dispatch(args) ==
    IF hasattr(args, "func")
    THEN [cli EXCEPT !.pc = "handler", !.args = args,
                     !.handled = Append(@, getattr(args, "func"))]
    ELSE [cli EXCEPT !.pc = "exited", !.args = args,
                     !.raised = Some("AttributeError"), !.exit = Some(1)]

main ==
    /\ cli.pc = "start"
    /\ \E argv \in CommandLines :
          LET args == parse_args(argv)
              started == [cli EXCEPT !.argv = argv]
          IN cli' = IF args.kind = "error"
                    THEN [started EXCEPT !.pc = "exited", !.exit = Some(args.status)]
                    ELSE IF missing_command(args)
                    THEN [started EXCEPT !.pc = "exited", !.args = args,
                                         !.stdout = Append(@, <<"usage: ", argv.words>>),
                                         !.exit = Some(1)]
                    ELSE [main_dispatch(args) EXCEPT !.argv = argv]
    /\ UNCHANGED <<self, threads, server, pc, frame, log, result, created, files, ncalls>>

(* the handler returns, or leaves with sys.exit(1) after printing its error *)
handler_returns ==
    /\ cli.pc = "handler"
    /\ \E status \in {0, 1} :
          cli' = [cli EXCEPT !.pc = "exited", !.exit = Some(status)]
    /\ UNCHANGED <<self, threads, server, pc, frame, log, result, created, files, ncalls>>

----------------------------------------------------------------------------
(* The caller takes the outcome; the client is ready for the next call *)

Finish ==
    /\ pc = "done"
    /\ pc' = "idle"
    /\ frame' = [op |-> "none"]
    /\ log' = <<>>
    /\ result' = Pending
    /\ UNCHANGED <<self, threads, server, cli, created, files, ncalls>>

----------------------------------------------------------------------------

Init ==
    /\ self = NewClient(ApiKey, UserId)
    /\ pc = "idle"
    /\ frame = [op |-> "none"]
    /\ log = <<>>
    /\ result = Pending
    /\ created = <<>>
    /\ files = (<<"/", "d", "/", "a">> :> <<1, 2>>) @@ (<<"b">> :> <<>>)
    /\ ncalls = 0
    /\ threads = [t \in Threads |-> [pc |-> "idle"]]
    /\ server = NoServer
    /\ cli = NoCommand

Next ==
    \/ upload_attachment_call
    \/ upload_attachment_template
    \/ upload_attachment_create
    \/ upload_attachment_put
    \/ download_attachment_call
    \/ download_attachment_get_item
    \/ download_attachment_get_file
    \/ update_item
    \/ delete_item
    \/ update_collection
    \/ delete_collection
    \/ add_tags_to_item
    \/ remove_tags_from_item_call
    \/ remove_tags_from_item_delete
    \/ Finish

Spec == Init /\ [][Next]_vars

(* The duplicate finder alone, over every listing of the library *)
NextDuplicates ==
    \/ find_duplicates
    \/ Finish

SpecDuplicates == Init /\ [][NextDuplicates]_vars

(* Two concurrent callers of the one client *)
NextConcurrent ==
    \/ \E t \in Threads : call_begin(t)
    \/ \E t \in Threads : call_headers(t)
    \/ \E t \in Threads : call_send(t)

SpecConcurrent == Init /\ [][NextConcurrent]_vars

(* Two clients updating, and one removing tags, against a server that keeps *)
(* versions                                                                   *)
InitVersioned ==
    /\ self = NewClient(ApiKey, UserId)
    /\ pc = "idle"
    /\ frame = [op |-> "none"]
    /\ log = <<>>
    /\ result = Pending
    /\ created = <<>>
    /\ files = (<<"/", "d", "/", "a">> :> <<1, 2>>) @@ (<<"b">> :> <<>>)
    /\ ncalls = 0
    /\ threads = [t \in Threads |-> [pc |-> "idle"]]
    /\ server \in VersionedServers
    /\ cli = NoCommand

NextVersioned ==
    \/ \E t \in Threads : snapshot_get_item(t)
    \/ \E t \in Threads : snapshot_update_item(t)
    \/ remove_tags_from_item_call
    \/ versioned_remove_tags_delete
    \/ Finish

SpecVersioned == InitVersioned /\ [][NextVersioned]_vars

(* The upload handler of the command line: one upload, then its report *)
NextUploadCli ==
    \/ upload_attachment_call
    \/ upload_attachment_template
    \/ upload_attachment_create
    \/ upload_attachment_put
    \/ upload_attachment_cli

SpecUploadCli == Init /\ [][NextUploadCli]_vars

(* The transfers, where every request and every file operation returns:    *)
(* a call that has begun takes its next step                                 *)
NextTransfer ==
    \/ upload_attachment_call
    \/ upload_attachment_template
    \/ upload_attachment_create
    \/ upload_attachment_put
    \/ download_attachment_call
    \/ download_attachment_get_item
    \/ download_attachment_get_file
    \/ remove_tags_from_item_call
    \/ remove_tags_from_item_delete
    \/ Finish

EveryRequestReturns ==
    /\ WF_vars(upload_attachment_template)
    /\ WF_vars(upload_attachment_create)
    /\ WF_vars(upload_attachment_put)
    /\ WF_vars(download_attachment_get_item)
    /\ WF_vars(download_attachment_get_file)
    /\ WF_vars(remove_tags_from_item_delete)

SpecTransfer == Init /\ [][NextTransfer]_vars /\ EveryRequestReturns

(* One run of the command line: parse, dispatch, and the handler's end *)
NextMain ==
    \/ main
    \/ handler_returns

SpecMain == Init /\ [][NextMain]_vars

(* The summarizer, for a client constructed with any openai_api_key *)
InitSummarize ==
    /\ \E key \in OpenAIKeys :
          self = [NewClient(ApiKey, UserId) EXCEPT !.openai_api_key = key]
    /\ pc = "idle"
    /\ frame = [op |-> "none"]
    /\ log = <<>>
    /\ result = Pending
    /\ created = <<>>
    /\ files = (<<"/", "d", "/", "a">> :> <<1, 2>>) @@ (<<"b">> :> <<>>)
    /\ ncalls = 0
    /\ threads = [t \in Threads |-> [pc |-> "idle"]]
    /\ server = NoServer
    /\ cli = NoCommand

NextSummarize ==
    \/ summarize_item_content_call
    \/ summarize_get_item
    \/ summarize_chat
    \/ Finish

SpecSummarize == InitSummarize /\ [][NextSummarize]_vars

----------------------------------------------------------------------------
(* Properties.  The requests of the call in progress are H == HttpEvents(log); *)
(* a status is a success when it is 2xx.                                       *)

Success(status) == status \in 200..299

IsUpload == frame.op = "upload_attachment"
IsDownload == frame.op = "download_attachment"

VersionHeader == "If-Unmodified-Since-Version"

ConditionalOps ==
    {"update_item", "delete_item", "update_collection", "delete_collection",
     "add_tags_to_item", "remove_tags_from_item"}

(* C1: every request of a conditional mutation called with an expected       *)
(* version v (0 included) carries If-Unmodified-Since-Version: str(v); with  *)
(* no version supplied, no request of the call carries the header.           *)
C1_VersionHeaderForEveryVersion ==
    frame.op \in ConditionalOps =>
        \A i \in 1..Len(log) :
            LET headers == log[i].kw.headers
                v == frame.if_unmodified_since_version
            IN IF v = None
               THEN VersionHeader \notin DOMAIN headers
               ELSE /\ VersionHeader \in DOMAIN headers
                    /\ headers[VersionHeader] = ToString(v[1])

C3_UploadAbortsOnHttpError ==
    IsUpload =>
        \A i \in 1..Len(log) :
            (log[i].ev = "http" /\ ~Success(log[i].status)) =>
                /\ i = Len(log)
                /\ pc = "done"
                /\ result = Raise("HTTPError", log[i].status)

C3_Witness ==
    /\ IsUpload
    /\ Len(log) = 2
    /\ log[2].ev = "http"
    /\ log[2].method = "POST"
    /\ ~Success(log[2].status)
    /\ result.kind = "raise"

(* C4: when the create POST succeeded and the file PUT failed, the call ends *)
(* with the error, the PUT is the last request (no DELETE, no update), and   *)
(* the item record created by the POST is still on the server, without file  *)
(* content.                                                                  *)
C4_NoRollbackAfterFailedPut ==
    LET H == HttpEvents(log)
    IN (IsUpload /\ Len(H) >= 3 /\ ~Success(H[3].status)) =>
           /\ Len(H) = 3
           /\ pc = "done"
           /\ result = Raise("HTTPError", H[3].status)
           /\ H[2].body[1].key \in DOMAIN created
           /\ ~created[H[2].body[1].key]

C4_Witness ==
    LET H == HttpEvents(log)
    IN /\ IsUpload
       /\ Len(H) = 3
       /\ H[3].method = "PUT"
       /\ ~Success(H[3].status)
       /\ H[2].body[1].key \in DOMAIN created

(* C5: an upload of a local file that does not exist issues no request at    *)
(* all (no template GET, no create POST, no file PUT), creates no item       *)
(* record, and ends with the not-found error.                                *)
C5_MissingFileBeforeAnyRequest ==
    (IsUpload /\ frame.file_path \notin DOMAIN files) =>
        /\ HttpEvents(log) = <<>>
        /\ pc = "done" => result = Raise("FileNotFoundError", frame.file_path)

(* C6: a create response without links.file.href ends the call with an       *)
(* error: the create POST is the last request (no file PUT, no second POST)  *)
(* and no Item is returned.                                                  *)
C6_MissingHrefIsFatal ==
    LET H == HttpEvents(log)
        links == Get(H[2].body[1], "links", <<>>)
    IN (/\ IsUpload
        /\ Len(H) >= 2
        /\ Success(H[2].status)
        /\ ("file" \notin DOMAIN links \/ "href" \notin DOMAIN links.file)) =>
           /\ Len(H) = 2
           /\ pc = "done"
           /\ result.kind = "raise"

C6_Witness ==
    LET H == HttpEvents(log)
    IN /\ IsUpload
       /\ Len(H) = 2
       /\ Success(H[2].status)
       /\ "links" \in DOMAIN H[2].body[1]
       /\ "file" \notin DOMAIN H[2].body[1].links
       /\ result.kind = "raise"

(* C7: the body of the create POST is a list of one element, the template    *)
(* returned by the template GET with title (the supplied title, else the     *)
(* base name of the file path), parentItem, filename (the base name),        *)
(* contentType 'application/octet-stream' and linkMode 'imported_file'       *)
(* overwritten and every other field of the template unchanged.              *)
Overwritten == {"title", "parentItem", "filename", "contentType", "linkMode"}

C7_CreateBodyIsOverlaidTemplate ==
    LET H == HttpEvents(log)
        template == H[1].body
        json == H[2].kw.json
    IN (IsUpload /\ Len(H) >= 2) =>
           /\ Len(json) = 1
           /\ DOMAIN json[1] = DOMAIN template \cup Overwritten
           /\ json[1].title = IF frame.title = None THEN basename(frame.file_path)
                              ELSE frame.title[1]
           /\ json[1].parentItem = frame.parent_item_id
           /\ json[1].filename = basename(frame.file_path)
           /\ json[1].contentType = "application/octet-stream"
           /\ json[1].linkMode = "imported_file"
           /\ \A f \in DOMAIN template \ Overwritten : json[1][f] = template[f]

C7_Witness ==
    LET H == HttpEvents(log)
    IN /\ IsUpload
       /\ Len(H) >= 2
       /\ frame.title = None
       /\ frame.file_path = <<"/", "d", "/", "a">>
       /\ H[2].kw.json[1].title = <<"a">>
       /\ "note" \in DOMAIN H[1].body
       /\ H[1].body.linkMode = "imported_url"

(* C8: the Item a successful upload returns is the one built from the create *)
(* response (its key, title, version and links are those of that response),  *)
(* and the file PUT is the last request: the item is not fetched afterwards. *)
C8_ReturnsItemOfCreateResponse ==
    LET H == HttpEvents(log)
        response == H[2].body[1]
    IN (IsUpload /\ result.kind = "return") =>
           /\ H[Len(H)].method = "PUT"
           /\ \A i \in 2..Len(H) : H[i].method # "GET"
           /\ result.value.key = response.data.key
           /\ result.value.title = Get(response.data, "title", <<>>)
           /\ (Get(response.data, "title", <<>>) = H[2].kw.json[1].title
                  /\ frame.title # None) => result.value.title = frame.title[1]
           /\ result.value.version = response.version
           /\ result.value.links = response.links

C8_Witness ==
    LET H == HttpEvents(log)
    IN /\ IsUpload
       /\ result.kind = "return"
       /\ frame.title = Some(<<"T">>)
       /\ result.value.title = <<"T">>
       /\ result.value.key = "K1"
       /\ created["K1"]

(* C9: download_attachment of an item whose item type is not 'attachment'    *)
(* raises ValueError naming the id after the metadata GET alone: no file     *)
(* GET, no open of the destination, with or without a file link.             *)
C9_NotAnAttachment ==
    (/\ IsDownload
     /\ Len(log) >= 1
     /\ Success(log[1].status)
     /\ log[1].body.data.itemType # "attachment") =>
        /\ Len(log) = 1
        /\ pc = "done"
        /\ result = Raise("ValueError",
                          "Item " \o frame.attachment_id \o " is not an attachment.")

C9_Witness ==
    /\ IsDownload
    /\ Len(log) = 1
    /\ Success(log[1].status)
    /\ log[1].body.data.itemType = "book"
    /\ "links" \in DOMAIN log[1].body
    /\ "file" \in DOMAIN log[1].body.links
    /\ result.kind = "raise"

(* C10: download_attachment of an attachment whose links hold no 'file'      *)
(* entry raises ValueError naming the attachment id after the metadata GET   *)
(* alone: no file GET, no open of the destination.                           *)
C10_NoFileLink ==
    (/\ IsDownload
     /\ Len(log) >= 1
     /\ Success(log[1].status)
     /\ log[1].body.data.itemType = "attachment"
     /\ "file" \notin DOMAIN Get(log[1].body, "links", <<>>)) =>
        /\ Len(log) = 1
        /\ pc = "done"
        /\ result = Raise("ValueError",
                          "Attachment " \o frame.attachment_id
                              \o " does not have a downloadable file.")

C10_Witness ==
    /\ IsDownload
    /\ Len(log) = 1
    /\ Success(log[1].status)
    /\ log[1].body.data.itemType = "attachment"
    /\ "links" \in DOMAIN log[1].body
    /\ "file" \notin DOMAIN log[1].body.links
    /\ result.kind = "raise"

(* C11: after a successful download_attachment the destination file holds    *)
(* exactly the response body: the chunks in arrival order, whatever the      *)
(* chunking and whatever the file held before; the call returns the          *)
(* destination path it was given.                                            *)
C11_DownloadedFileEqualsBody ==
    (IsDownload /\ result.kind = "return") =>
        /\ Len(log) = 3
        /\ log[2].method = "GET"
        /\ log[3] = Open(frame.output_path, "wb", TRUE)
        /\ frame.output_path \in DOMAIN files
        /\ files[frame.output_path] = log[2].body.content
        /\ result.value = frame.output_path

C11_Witness ==
    /\ IsDownload
    /\ result.kind = "return"
    /\ frame.output_path = <<"/", "d", "/", "a">>
    /\ Len(log[2].body.chunks) = 2
    /\ files[frame.output_path] = <<2, 1>>

----------------------------------------------------------------------------
(* find_duplicates: the items of the listing it read and the groups it returned *)

IsFindDuplicates == frame.op = "find_duplicates" /\ pc = "done"

Input == [i \in 1..Len(log[1].body) |-> from_api_response(log[1].body[i])]

Groups == result.value

Members(group) == { group[i] : i \in DOMAIN group }

(* The fingerprint of the specification: title, creator names, year prefix *)
Fingerprint(item) ==
    <<lower(SelectSeq(item.title, isalnum)),
      creator_last_names(item),
      split_first(item.date, "-")>>

Eligible(item) ==
    /\ SelectSeq(item.title, isalnum) # <<>>
    /\ \E i \in DOMAIN item.creators :
          /\ "lastName" \in DOMAIN item.creators[i]
          /\ item.creators[i].lastName # <<>>
    /\ item.date # <<>>
    /\ split_first(item.date, "-") # <<>>

(* The fingerprint string: the three components joined by '-' *)
FingerprintString(item) ==
    Fingerprint(item)[1] \o <<"-">> \o join(<<"_">>, Fingerprint(item)[2])
    \o <<"-">> \o Fingerprint(item)[3]

Collision ==
    \E i, j \in DOMAIN Input :
        /\ i # j
        /\ Eligible(Input[i]) /\ Eligible(Input[j])
        /\ FingerprintString(Input[i]) = FingerprintString(Input[j])

(* C12: every group of the result of find_duplicates has at least 2 items; an
   eligible item whose fingerprint no other item has is in no group; and when no
   two eligible items share a fingerprint the result is the empty mapping. *)
C12_GroupsHaveTwoOrMore ==
    (IsFindDuplicates /\ result.kind = "return") =>
        /\ \A k \in DOMAIN Groups : Len(Groups[k]) >= 2
        /\ \A i \in DOMAIN Input :
              (/\ Eligible(Input[i])
               /\ \A j \in DOMAIN Input :
                     (j # i /\ Eligible(Input[j]))
                         => FingerprintString(Input[j]) # FingerprintString(Input[i]))
                  => \A k \in DOMAIN Groups : Input[i] \notin Members(Groups[k])
        /\ ~Collision => DOMAIN Groups = {}

(* three items, two of them eligible, no two alike: nothing came back *)
C12_Witness ==
    /\ IsFindDuplicates /\ result.kind = "return"
    /\ Len(Input) = 3
    /\ \E i, j \in DOMAIN Input : i # j /\ Eligible(Input[i]) /\ Eligible(Input[j])
    /\ ~Collision
    /\ DOMAIN Groups = {}

(* C13: an item with an empty normalized title, or with no creator that has a
   non-empty last name, or with no date or an empty text before the first '-'
   of its date, is in no group of the result of find_duplicates. *)
C13_IneligibleItemsAreInNoGroup ==
    (IsFindDuplicates /\ result.kind = "return") =>
        \A i \in DOMAIN Input :
            ~Eligible(Input[i])
                => \A k \in DOMAIN Groups : Input[i] \notin Members(Groups[k])

(* an item without a date and one without a year, alike otherwise, beside a
   pair of duplicates *)
C13_Witness ==
    /\ IsFindDuplicates /\ result.kind = "return"
    /\ \E i, j \in DOMAIN Input :
          /\ i # j
          /\ Input[i].date = <<>> /\ Input[j].date # <<>>
          /\ normalized_title(Input[i]) = normalized_title(Input[j])
          /\ ~Eligible(Input[i]) /\ ~Eligible(Input[j])
    /\ DOMAIN Groups # {}

(* C14: two eligible items with the same normalized title, the same sorted
   lowercased creator last names and the same year prefix are together in one
   group of the result, whatever their item_type, key or the rest of the date. *)
C14_SameFingerprintSameGroup ==
    (IsFindDuplicates /\ result.kind = "return") =>
        \A i, j \in DOMAIN Input :
            (/\ i # j
             /\ Eligible(Input[i]) /\ Eligible(Input[j])
             /\ Fingerprint(Input[i]) = Fingerprint(Input[j]))
                => \E k \in DOMAIN Groups :
                      {Input[i], Input[j]} \subseteq Members(Groups[k])

(* a journal article and a book, titled and dated differently, in one group *)
C14_Witness ==
    /\ IsFindDuplicates /\ result.kind = "return"
    /\ \E k \in DOMAIN Groups : \E a, b \in Members(Groups[k]) :
          /\ a.item_type # b.item_type
          /\ a.key # b.key
          /\ a.date # b.date
          /\ a.title # b.title

(* C15: each group is exactly the eligible items of the input that have its
   fingerprint, each once, in the order of the input; no item is in two groups. *)
C15_GroupsPartitionInInputOrder ==
    (IsFindDuplicates /\ result.kind = "return") =>
        /\ \A k \in DOMAIN Groups :
              Groups[k] = SelectSeq(Input, LAMBDA it : Eligible(it)
                                                       /\ FingerprintString(it) = k)
        /\ \A k1, k2 \in DOMAIN Groups :
              k1 # k2 => Members(Groups[k1]) \cap Members(Groups[k2]) = {}

(* two groups; one holds D2 before D1, the order of the listing *)
C15_Witness ==
    /\ IsFindDuplicates /\ result.kind = "return"
    /\ Cardinality(DOMAIN Groups) = 2
    /\ \E k \in DOMAIN Groups :
          /\ Len(Groups[k]) = 2
          /\ Groups[k][1].key = "D2" /\ Groups[k][2].key = "D1"

(* C19: find_duplicates makes exactly one request, a GET of the items listing
   with no query parameter at all, makes no mutating request, and every item of
   every group is an item of that one response. *)
C19_OneUnfilteredListing ==
    IsFindDuplicates =>
        /\ Len(log) = 1
        /\ log[1].ev = "http" /\ log[1].method = "GET"
        /\ log[1].url = BASE_URL \o "/users/" \o UserId \o "/items"
        /\ DOMAIN log[1].kw.params = {}
        /\ created = <<>>
        /\ result.kind = "return"
              => \A k \in DOMAIN Groups : Members(Groups[k]) \subseteq Members(Input)

C19_Witness ==
    /\ IsFindDuplicates /\ result.kind = "return"
    /\ Len(log) = 1 /\ Len(log[1].body) = MaxItems
    /\ Cardinality(DOMAIN Groups) = 2

----------------------------------------------------------------------------
(* Conflicts and partial failures *)

VersionedOps == {"update_item", "delete_item", "update_collection", "delete_collection"}

Rejected ==
    /\ frame.op \in VersionedOps
    /\ Len(log) >= 1
    /\ VersionHeader \in DOMAIN log[1].kw.headers
    /\ log[1].status = 412

(* C16: a conditional update or delete that the server rejects with 412
   (the resource is newer than the expected version) ends after that one
   request with the HTTP error: nothing is read again, nothing is retried and
   no Item or Collection is returned. *)
C16_ConflictEndsTheCall ==
    Rejected =>
        /\ Len(log) = 1
        /\ pc = "done"
        /\ result = Raise("HTTPError", 412)

C16_Witness ==
    /\ Rejected
    /\ frame.op = "update_collection"
    /\ frame.if_unmodified_since_version = Some(MaxVersion)
    /\ result.kind = "raise"

IsRemoveTags == frame.op = "remove_tags_from_item"

TagUrl(item_id, tag_name) ==
    BASE_URL \o "/users/" \o UserId \o "/items/" \o item_id \o "/tags/" \o tag_name

(* the tags whose DELETE the server has carried out *)
RemovedTags == { frame.tags[i] : i \in {j \in 1..Len(log) : Success(log[j].status)} }

(* C18: the requests of remove_tags_from_item are DELETEs of the tags in list
   order, one per tag, each sent after the one before it succeeded; the first
   failed DELETE is the last request of the call and its error is the outcome:
   no tag after it is deleted and no removed tag is put back. *)
C18_RemovalStopsAtFirstFailure ==
    IsRemoveTags =>
        /\ Len(log) <= Len(frame.tags)
        /\ \A i \in 1..Len(log) :
              /\ log[i].ev = "http" /\ log[i].method = "DELETE"
              /\ log[i].url = TagUrl(frame.item_id, frame.tags[i])
              /\ i < Len(log) => Success(log[i].status)
        /\ (Len(log) >= 1 /\ ~Success(log[Len(log)].status))
              => /\ pc = "done"
                 /\ result = Raise("HTTPError", log[Len(log)].status)
                 /\ RemovedTags = { frame.tags[i] : i \in 1..(Len(log) - 1) }
        /\ result.kind = "return" => Len(log) = Len(frame.tags)
        /\ pc = "done" => result.kind \in {"return", "raise"}

(* the second of three DELETEs failed: one tag is gone, one was never tried *)
C18_Witness ==
    /\ IsRemoveTags /\ pc = "done"
    /\ Len(frame.tags) = 3 /\ Len(log) = 2
    /\ result.kind = "raise"
    /\ RemovedTags = {frame.tags[1]}

----------------------------------------------------------------------------
(* Reentrancy *)

(* the headers a call of its own would send, whatever other calls do *)
OwnHeaders(call) ==
    IF call.op = "update_item"
    THEN version_headers(NewClient(ApiKey, UserId), call.if_unmodified_since_version)
    ELSE IF call.op = "upload_attachment"
    THEN upload_headers(NewClient(ApiKey, UserId))
    ELSE NewClient(ApiKey, UserId).headers

(* C17: whatever two concurrent callers do, and whether their requests succeed
   or fail, the client is as constructed: headers = {'Zotero-API-Key': api_key},
   and api_key, user_id and library_type unchanged; and every request carries
   the headers of its own call only: If-Unmodified-Since-Version or Content-Type
   of one call is in no request of another. *)
C17_ClientIsNeverMutated ==
    /\ self = NewClient(ApiKey, UserId)
    /\ self.headers = ("Zotero-API-Key" :> ApiKey)
    /\ \A i \in 1..Len(log) :
          "thread" \in DOMAIN log[i] => log[i].kw.headers = OwnHeaders(log[i].call)

(* a GET whose call began before a conditional PUT of the other caller was
   sent, and a failed one, and the GET has the API key only *)
C17_Witness ==
    /\ Len(log) = 2
    /\ "thread" \in DOMAIN log[1] /\ "thread" \in DOMAIN log[2]
    /\ log[1].thread # log[2].thread
    /\ log[1].call.op = "update_item" /\ log[1].status = 412
    /\ VersionHeader \in DOMAIN log[1].kw.headers
    /\ log[2].call.op = "get_item"
    /\ log[2].call.started = 0
    /\ DOMAIN log[2].kw.headers = {"Zotero-API-Key"}

----------------------------------------------------------------------------
(* summarize_item_content *)

IsSummarize == frame.op = "summarize_item_content"

(* C20: summarize_item_content on a client without an OpenAI key (None, or the
   empty string) ends at once with ValueError 'OpenAI API key is not
   configured.': the item is not fetched and no completion is requested. *)
C20_NoKeyNoRequest ==
    (IsSummarize /\ self.openai_api_key \in {None, Some("")}) =>
        /\ pc = "done"
        /\ log = <<>>
        /\ result = Raise("ValueError", "OpenAI API key is not configured.")

C20_Witness ==
    /\ IsSummarize /\ self.openai_api_key = None
    /\ result.kind = "raise" /\ result.exc = "ValueError"
    /\ log = <<>>
    /\ ncalls = MaxCalls

ChatCalls == SelectSeq(log, LAMBDA e : e.ev = "openai")

(* C21: a failed chat completion, whatever the exception, reaches the caller
   as RuntimeError 'OpenAI API error: ' followed by the message of the
   exception; a failed GET of the item reaches the caller as the HTTP error
   itself, and then no completion is requested. *)
C21_CompletionErrorsAreWrapped ==
    (IsSummarize /\ pc = "done") =>
        /\ \A i \in 1..Len(log) :
              (log[i].ev = "openai" /\ log[i].outcome.kind = "exception")
                  => /\ i = Len(log)
                     /\ result = Raise("RuntimeError",
                                       "OpenAI API error: " \o log[i].outcome.message)
        /\ (Len(log) >= 1 /\ log[1].ev = "http" /\ ~Success(log[1].status))
              => /\ result = Raise("HTTPError", log[1].status)
                 /\ ChatCalls = <<>>
        /\ result.kind = "raise"
              => result.exc \in {"ValueError", "HTTPError", "RuntimeError"}

(* the completion answered without choices: IndexError, wrapped *)
C21_Witness ==
    /\ IsSummarize /\ pc = "done"
    /\ Len(log) = 2 /\ log[2].ev = "openai"
    /\ log[2].outcome.kind = "exception" /\ log[2].outcome.exc = "IndexError"
    /\ result = Raise("RuntimeError", "OpenAI API error: list index out of range")

----------------------------------------------------------------------------
(* The upload handler *)

FailedOpens == SelectSeq(log, LAMBDA e : e.ev = "open" /\ ~e.ok)

(* C22: when the local file of an upload does not exist, upload_attachment
   raises FileNotFoundError itself, not an HTTP error and not a wrapping
   error; upload_attachment_cli then prints 'Error: File not found at <path>'
   and nothing else, and exits with status 1. *)
C22_MissingFileIsReportedAsNotFound ==
    (IsUpload /\ FailedOpens # <<>>) =>
        /\ result = Raise("FileNotFoundError", frame.file_path)
        /\ pc = "reported" =>
              /\ Len(cli.stdout) = 1
              /\ cli.stdout[1][1] = "Error: File not found at "
              /\ Len(cli.stdout[1]) = 2
              /\ cli.stdout[1][2] = frame.file_path
              /\ cli.exit = Some(1)

C22_Witness ==
    /\ IsUpload /\ pc = "reported"
    /\ FailedOpens # <<>>
    /\ frame.file_path = <<"d", "/", "n">>
    /\ cli.exit = Some(1)
    /\ cli.stdout = << <<"Error: File not found at ", <<"d", "/", "n">> >> >>

----------------------------------------------------------------------------
(* Optimistic concurrency against a server that keeps versions *)

Updated(t) == threads[t].pc = "updated"

SameSnapshot ==
    /\ Updated("t1") /\ Updated("t2")
    /\ threads["t1"].item.key = threads["t2"].item.key
    /\ threads["t1"].item.version = threads["t2"].item.version

(* C23: two clients that hold the same item at the same version v and both
   call update_item with if_unmodified_since_version = v: at most one of the
   two updates is applied, the other ends with an error, for every v. *)
C23_NoLostUpdate ==
    SameSnapshot =>
        \E t \in Threads : threads[t].result.kind = "raise"

(* the successful DELETEs of the removal in progress *)
OwnDeletes == {i \in 1..Len(log) : Success(log[i].status)}

(* C24: with no other writer, remove_tags_from_item of k >= 2 tags that are
   all on the item, called with the version the item has at that time, ends
   without error and has removed all k tags. *)
C24_ConditionalRemovalCompletes ==
    (/\ IsRemoveTags /\ pc = "done"
     /\ Len(frame.tags) >= 2
     /\ { frame.tags[i] : i \in 1..Len(frame.tags) }
            \subseteq server[frame.item_id].tags \cup { frame.tags[i] : i \in OwnDeletes }
     /\ frame.if_unmodified_since_version
            = Some(server[frame.item_id].version - Cardinality(OwnDeletes)))
        => /\ result = Return(None)
           /\ server[frame.item_id].tags
                  \cap { frame.tags[i] : i \in 1..Len(frame.tags) } = {}

----------------------------------------------------------------------------
(* File access of the transfers *)

(* C25: upload_attachment opens the local file once, as the third event of
   the call: after the template GET and the create POST both succeeded and the
   create response gave an upload href; and the file PUT comes after that open
   and carries the whole content of the file. *)
C25_FileReadOnlyInPhaseThree ==
    IsUpload =>
        /\ \A i \in 1..Len(log) :
              log[i].ev = "open" =>
                  /\ i = 3
                  /\ log[i].path = frame.file_path /\ log[i].mode = "rb"
                  /\ log[1].ev = "http" /\ log[1].method = "GET"
                  /\ Success(log[1].status)
                  /\ log[2].ev = "http" /\ log[2].method = "POST"
                  /\ Success(log[2].status)
                  /\ "href" \in DOMAIN Get(Get(log[2].body[1], "links", <<>>),
                                            "file", <<>>)
        /\ \A i \in 1..Len(log) :
              (log[i].ev = "http" /\ log[i].method = "PUT") =>
                  /\ i = 4
                  /\ log[3] = Open(frame.file_path, "rb", TRUE)
                  /\ log[i].kw.data = files[frame.file_path]

C25_Witness ==
    /\ IsUpload /\ result.kind = "return"
    /\ Len(log) = 4
    /\ log[3].ev = "open"
    /\ log[4].method = "PUT" /\ log[4].kw.data = <<1, 2>>

FileGetSucceeded(l) ==
    /\ Len(l) = 3
    /\ l[1].ev = "http" /\ Success(l[1].status)
    /\ l[2].ev = "http" /\ l[2].method = "GET" /\ Success(l[2].status)
    /\ l[2].url = frame.download_url
    /\ l[3] = Open(frame.output_path, "wb", TRUE)

(* C26: in a download the destination is opened only after the file GET
   returned a success status, and no step of a download changes the
   filesystem otherwise: when the metadata GET fails, a validation fails or
   the file GET fails, every path, the destination included, is as it was. *)
C26_DestinationUntouchedOnFailure ==
    /\ [](IsDownload => (OpenEvents(log) # <<>> => FileGetSucceeded(log)))
    /\ [][(frame'.op = "download_attachment" /\ files' # files)
             => (pc = "dl_file" /\ FileGetSucceeded(log'))]_vars

(* the file GET failed; the destination still has what it had *)
C26_Witness ==
    /\ IsDownload /\ pc = "done"
    /\ Len(log) = 2 /\ ~Success(log[2].status)
    /\ frame.output_path = <<"/", "d", "/", "a">>
    /\ files[frame.output_path] = <<1, 2>>
    /\ ncalls = 1

----------------------------------------------------------------------------
(* find_duplicates: what a shared group says about its items *)

(* C27: two items of one group have equal normalized titles, equal sorted
   lists of lowercased non-empty creator last names and equal year prefixes. *)
C27_SameGroupSameComponents ==
    (IsFindDuplicates /\ result.kind = "return") =>
        \A k \in DOMAIN Groups : \A a, b \in Members(Groups[k]) :
            Fingerprint(a) = Fingerprint(b)

(* the keys of the result for a listing, each with the keys of its members *)
Grouping(all_items) ==
    LET groups == find_duplicates_loop(all_items, <<>>, <<>>)
    IN [k \in DOMAIN groups |-> { groups[k][i].key : i \in DOMAIN groups[k] }]

Exchange(seq, i, j) == [seq EXCEPT ![i] = seq[j], ![j] = seq[i]]

ReverseCreators(item) ==
    [item EXCEPT !.creators = [n \in 1..Len(item.creators) |->
                                  item.creators[Len(item.creators) + 1 - n]]]

(* C28: the keys of the result and the members of each key are the same for
   the listing with any two neighbouring items exchanged (these exchanges
   generate every permutation, and every listing is checked), and the key of
   an item is the same with its creators in reverse order. *)
C28_GroupingIgnoresOrder ==
    (IsFindDuplicates /\ result.kind = "return") =>
        /\ LET returned == [k \in DOMAIN Groups |->
                                { m.key : m \in Members(Groups[k]) }]
           IN \A i \in 1..(Len(Input) - 1) :
                 Grouping(Exchange(Input, i, i + 1)) = returned
        /\ \A i \in DOMAIN Input :
              duplicate_key(ReverseCreators(Input[i])) = duplicate_key(Input[i])

(* a full listing with two groups, one of them holding the item whose two
   creators are not in sorted order *)
C28_Witness ==
    /\ IsFindDuplicates /\ result.kind = "return"
    /\ Len(Input) = MaxItems
    /\ Cardinality(DOMAIN Groups) = 2
    /\ \E k \in DOMAIN Groups : \E m \in Members(Groups[k]) :
          /\ Len(m.creators) = 2
          /\ creator_last_names_unsorted(m) # creator_last_names(m)

(* the handler written for each subcommand *)
HandlerOf ==
    (<<"items", "list">> :> "list_items") @@
    (<<"items", "create">> :> "create_item_cli") @@
    (<<"items", "update">> :> "update_item_cli") @@
    (<<"items", "delete">> :> "delete_item_cli") @@
    (<<"collections", "list">> :> "list_collections") @@
    (<<"collections", "create">> :> "create_collection_cli") @@
    (<<"collections", "update">> :> "update_collection_cli") @@
    (<<"collections", "delete">> :> "delete_collection_cli") @@
    (<<"tags", "list">> :> "list_tags") @@
    (<<"tags", "add">> :> "add_tags_to_item_cli") @@
    (<<"tags", "remove">> :> "remove_tags_from_item_cli") @@
    (<<"attachments", "list">> :> "list_attachments") @@
    (<<"attachments", "upload">> :> "upload_attachment_cli") @@
    (<<"attachments", "download">> :> "download_attachment_cli") @@
    (<<"citations", "generate">> :> "generate_citations_cli") @@
    (<<"ai", "summarize">> :> "summarize_item_cli") @@
    (<<"duplicates", "find">> :> "find_duplicates_cli") @@
    (<<"export">> :> "export_items_cli") @@
    (<<"configure">> :> "configure_cli")

(* the command line was parsed into the namespace of a leaf subcommand *)
ParsedLeaf ==
    /\ cli.pc \in {"handler", "exited"}
    /\ cli.argv.words \in DOMAIN HandlerOf
    /\ parse_args(cli.argv).kind = "namespace"

(* C29: once a command line has parsed for a leaf subcommand, the handlers
   invoked are exactly the one handler of that subcommand. *)
C29_ParsedLeafInvokesItsHandler ==
    ParsedLeaf => cli.handled = <<HandlerOf[cli.argv.words]>>

Transfers == {"upload_attachment", "download_attachment", "remove_tags_from_item"}

InTransfer == frame.op \in Transfers

Ended == pc = "done" /\ result.kind \in {"return", "raise"}

MaxRequests ==
    IF IsUpload THEN 3
    ELSE IF IsDownload THEN 2
    ELSE Len(frame.tags)

(* C30: a transfer that has begun ends, with a result or an error and not
   both: it has no outcome before its end, the outcome once set stays, the
   requests it has sent are at most 3 for an upload, 2 for a download and
   len(tags) for a removal of tags, and a step sends at most one request,
   whose response is taken in the same step. *)
C30_TransfersEnd ==
    /\ [](InTransfer => /\ (pc # "done" => result = Pending)
                        /\ (pc = "done" => result.kind \in {"return", "raise"})
                        /\ Len(HttpEvents(log)) <= MaxRequests)
    /\ [][/\ Len(HttpEvents(log')) <= Len(HttpEvents(log)) + 1
          /\ (result # Pending => (result' = result \/ pc' = "idle"))]_vars
    /\ (InTransfer ~> Ended)

(* an upload that ends with an error after its third request *)
C30_Witness ==
    /\ IsUpload /\ Ended
    /\ result.kind = "raise"
    /\ Len(HttpEvents(log)) = 3

====
